---- MODULE Spec2Model ----
(***************************************************************************)
(* Model of the candlestick-chart analysis front end: the state store      *)
(* (state.ts), the handlers of index.tsx (handleImageFile, performAnalysis, *)
(* the language switcher), the analysis client (api.ts) and the renderer    *)
(* (ui.ts).  Every `await` of a handler is a suspension point: the code     *)
(* between two awaits is one atomic step of the single-threaded event loop, *)
(* and steps of different handler invocations interleave freely.            *)
(***************************************************************************)
EXTENDS Integers, Sequences, FiniteSets, TLC

VARIABLES
    state,            \* state.ts: the AppState singleton
    analyzeDisabled,  \* elements.analyzeButton.disabled
    loaderHidden,     \* elements.loader has class 'hidden'
    resultHidden,     \* elements.resultContainer has class 'hidden'
    errorHidden,      \* elements.errorContainer has class 'hidden'
    errorMessage,     \* elements.errorMessageEl.textContent, as a token sequence
    resultEl,         \* children of elements.resultEl, as a sequence of items
    preview,          \* the file shown by elements.imagePreview (0: none)
    attempts,         \* invocations of performAnalysis that passed the image guard
    selections,       \* invocations of handleImageFile with a file
    requests,         \* number of ai.models.generateContent calls made so far
    imageDescription, \* elements.imageDescription.value, as a token sequence
    lastRequest,      \* the parts of the latest generateContent call (null: none)
    resultImage,      \* history: the image the stored analysisData was computed for
    logRecords,       \* history: per attempt, the events it has passed to
                      \* logger.log, in order
    logServer,        \* the '/log' endpoint: "up" (every POST is answered),
                      \* "flaky" (a POST may fail), "lost" (a POST has failed)
    fetches,          \* history: calls of getPrompt that requested the knowledge
                      \* files
    composed,         \* history: calls of getPrompt that returned the composed
                      \* prompt
    shareButton,      \* the page's share button: textContent,
                      \* data-translate-key (null: attribute absent), disabled
    clipboardText,    \* the text last written to the system clipboard (only
                      \* handleShare writes it)
    probe             \* inputs/outputs of the pure-function specifications

vars == <<state, analyzeDisabled, loaderHidden, resultHidden, errorHidden,
          errorMessage, resultEl, preview, attempts, selections, requests,
          imageDescription, lastRequest, resultImage, logRecords, logServer,
          fetches, composed, shareButton, clipboardText, probe>>

(***************************************************************************)
(* Bounds of the model.                                                    *)
(***************************************************************************)
\* The number of user events that start a handler: image picks/pastes with a
\* file plus accepted clicks on the analyze button.
MaxEvents == 3

\* The length of a model reply, in tokens.
MaxLen == 5

\* The number of grounding chunks of a response.
MaxChunks == 3

\* The number of setState calls applied to the store on its own.
MaxUpdates == 2

\* The number of items of a pasted clipboard.
MaxItems == 2

(***************************************************************************)
(* Values.  null is the empty tuple and a present value x is <<x>>, so     *)
(* that both compare.  undefined/null strings use the markers below.       *)
(***************************************************************************)
Null == <<>>
Some(x) == <<x>>
NoImage == 0
UNDEF == "<undefined>"
NULLV == "<null>"

Languages == {"en", "bg"}

\* translations[lang][key]: each text is a token of its own per language.
translations(lang, key) == lang \o ":" \o key

(***************************************************************************)
(* The JSON payload.  A reply of the model is a sequence of tokens, each   *)
(* a run of characters: "{" and "}" are the brace characters (no other     *)
(* token holds a brace), a member token is one complete  "key": "string"   *)
(* pair, a key token is  "key":  alone (an object follows as its value),   *)
(* every other token is prose.  The commas between members are not         *)
(* written.  A field value is a record [t, s, en, bg]: t = "undef" (key    *)
(* absent), "null", "str" (plain string s) or "obj" (per-language mapping  *)
(* en/bg, each a string or UNDEF).                                         *)
(***************************************************************************)
Keys == <<"patternName", "signal", "profitProbability", "confirmationIndicators",
          "takeProfitLevel", "stopLossLevel", "takeProfitTimeframe",
          "tradingAdvice", "summary">>

KeySet == {Keys[i] : i \in 1..Len(Keys)}

FUndef == [t |-> "undef", s |-> "", en |-> UNDEF, bg |-> UNDEF]
FNull == [t |-> "null", s |-> "", en |-> UNDEF, bg |-> UNDEF]
FStr(x) == [t |-> "str", s |-> x, en |-> UNDEF, bg |-> UNDEF]
FObj(e, b) == [t |-> "obj", s |-> "", en |-> e, bg |-> b]

EmptyJson == [k \in KeySet |-> FUndef]

Members == {"en:Hammer", "bg:Chuk", "sig:str", "tp:str"}

MemberKey(tok) ==
    CASE tok = "en:Hammer" -> "en"
      [] tok = "bg:Chuk" -> "bg"
      [] tok = "sig:str" -> "signal"
      [] tok = "tp:str" -> "takeProfitLevel"

MemberValue(tok) ==
    CASE tok = "en:Hammer" -> FStr("Hammer")
      [] tok = "bg:Chuk" -> FStr("Chuk")
      [] tok = "sig:str" -> FStr("Buy")
      [] tok = "tp:str" -> FStr("150")

\* "patternName":
KeyTokens == {"pn:"}

KeyOf(tok) == "patternName"

\* String.prototype.indexOf / lastIndexOf on tokens, 1-based; 0 stands for -1.
indexOf(s, tok) ==
    IF \E i \in 1..Len(s) : s[i] = tok
    THEN CHOOSE i \in 1..Len(s) : s[i] = tok /\ \A j \in 1..(i - 1) : s[j] # tok
    ELSE 0

\* Mutant: the position of the first occurrence instead of the last.
lastIndexOfFirst(s, tok) ==
    IF \E i \in 1..Len(s) : s[i] = tok
    THEN CHOOSE i \in 1..Len(s) : s[i] = tok /\ \A j \in 1..(i - 1) : s[j] # tok
    ELSE 0

lastIndexOf(s, tok) ==
    IF \E i \in 1..Len(s) : s[i] = tok
    THEN CHOOSE i \in 1..Len(s) : s[i] = tok /\ \A j \in (i + 1)..Len(s) : s[j] # tok
    ELSE 0

\* String.prototype.includes for a marker token.
includes(s, tok) == \E i \in 1..Len(s) : s[i] = tok

\* Nesting depth after reading the first i tokens.
Depth(s, i) ==
    Cardinality({j \in 1..i : s[j] = "{"}) - Cardinality({j \in 1..i : s[j] = "}"})

\* JSON.parse reading the members of an object from position i on: the
\* position of the "}" that closes the object, or -e when the token at e
\* cannot be accepted (e = Len(s) + 1: the text ends too early).  A member
\* is a member token, or a key token followed by an object.
RECURSIVE parseMembers(_, _)
parseMembers(s, i) ==
    IF i > Len(s) THEN -i
    ELSE IF s[i] = "}" THEN i
    ELSE IF s[i] \in Members THEN parseMembers(s, i + 1)
    ELSE IF s[i] \in KeyTokens
         THEN IF i + 1 > Len(s) \/ s[i + 1] # "{" THEN -(i + 1)
              ELSE LET close == parseMembers(s, i + 2)
                   IN  IF close < 0 THEN close ELSE parseMembers(s, close + 1)
         ELSE -i

\* Where JSON.parse stops with a SyntaxError, 0 when it accepts the text:
\* it accepts exactly one object, with nothing after it.
ErrorAt(s) ==
    IF Len(s) = 0 \/ s[1] # "{" THEN 1
    ELSE LET close == parseMembers(s, 2)
         IN  IF close < 0 THEN -close
             ELSE IF close < Len(s) THEN close + 1
             ELSE 0

WellFormed(s) == ErrorAt(s) = 0

\* The members of the object opened at position open, by position.
EntriesOf(s, open) ==
    {i \in (open + 1)..(parseMembers(s, open + 1) - 1) :
        s[i] \in Members \cup KeyTokens /\ Depth(s, i) = Depth(s, open)}

EntryKey(tok) == IF tok \in KeyTokens THEN KeyOf(tok) ELSE MemberKey(tok)

\* The last member with key k of the object opened at open (JSON.parse keeps
\* the last duplicate), 0 when there is none.
LastEntry(s, open, k) ==
    LET at == {i \in EntriesOf(s, open) : EntryKey(s[i]) = k}
    IN  IF at = {} THEN 0 ELSE CHOOSE i \in at : \A j \in at : j <= i

\* obj[lang] of the object opened at open: a string, or undefined when the
\* key is absent.
TextOf(s, open, lang) ==
    LET i == LastEntry(s, open, lang)
    IN  IF i = 0 THEN UNDEF ELSE MemberValue(s[i]).s

\* The value of key k in the parsed object: undefined when the key is
\* absent, the string of a member token, the mapping after a key token.
FieldOf(s, k) ==
    LET i == LastEntry(s, 1, k)
    IN  IF i = 0 THEN FUndef
        ELSE IF s[i] \in Members THEN MemberValue(s[i])
        ELSE FObj(TextOf(s, i + 1, "en"), TextOf(s, i + 1, "bg"))

\* The message of the SyntaxError thrown by JSON.parse is the engine's own
\* English text.  Depending on the engine and on the kind of error it may
\* name the unexpected character (echo.unexpected: a token of the text when
\* that character is a brace), quote the text it was given, whole or only
\* around the error (echo.quoted, a slice of the text, possibly empty), and
\* name the position of the error, a number whose digits may hold "400"
\* (echo.position).
NoEcho == [unexpected |-> <<>>, quoted |-> <<>>, position |-> <<>>]

Unexpected(s) ==
    LET e == ErrorAt(s)
    IN  IF e \in 1..Len(s) /\ s[e] \in {"{", "}"} THEN {<<>>, <<s[e]>>} ELSE {<<>>}

Echoes(s) ==
    {[unexpected |-> u,
      quoted |-> IF a > b THEN <<>> ELSE SubSeq(s, a, b),
      position |-> p] :
        u \in Unexpected(s), a \in 1..(Len(s) + 1), b \in 0..Len(s),
        p \in {<<>>, <<"400">>}}

SyntaxErrorMessage(s, echo) ==
    <<"SYNTAX">> \o echo.unexpected \o echo.quoted \o echo.position

JSONparse(s, echo) ==
    IF WellFormed(s)
    THEN [ok |-> TRUE, json |-> [k \in KeySet |-> FieldOf(s, k)], message |-> <<>>]
    ELSE [ok |-> FALSE, json |-> EmptyJson, message |-> SyntaxErrorMessage(s, echo)]

\* "Could not find a valid JSON object in the model's response. The response
\* was: " + jsonString
NoJsonMessage(raw) == <<"NOJSON", "RESPWAS">> \o raw

\* Mutant: the test without the comparison of the two positions.
noJsonObjectUnordered(firstBrace, lastBrace) == firstBrace = 0 \/ lastBrace = 0

\* firstBrace === -1 || lastBrace === -1 || lastBrace < firstBrace
noJsonObject(firstBrace, lastBrace) ==
    firstBrace = 0 \/ lastBrace = 0 \/ lastBrace < firstBrace

\* Mutant: the slice that stops before the closing brace.
substringExclusive(s, firstBrace, lastBrace) == SubSeq(s, firstBrace, lastBrace - 1)

\* jsonString.substring(firstBrace, lastBrace + 1), positions 1-based.
substring(s, firstBrace, lastBrace) == SubSeq(s, firstBrace, lastBrace)

\* The argument of JSON.parse: null when the call is not reached.
parserInput(raw) ==
    LET firstBrace == indexOf(raw, "{")
        lastBrace == lastIndexOf(raw, "}")
    IN  IF noJsonObject(firstBrace, lastBrace) THEN Null
        ELSE Some(substring(raw, firstBrace, lastBrace))

\* api.ts: the extraction of the JSON object from response.text.
extract(raw, echo) ==
    IF parserInput(raw) = Null
    THEN [ok |-> FALSE, json |-> EmptyJson, message |-> NoJsonMessage(raw)]
    ELSE JSONparse(parserInput(raw)[1], echo)

\* The messages JSON.parse can throw for the raw text: one choice (unused)
\* when it is not called or accepts its input.
EchoesFor(raw) ==
    IF parserInput(raw) = Null \/ WellFormed(parserInput(raw)[1]) THEN {NoEcho}
    ELSE Echoes(parserInput(raw)[1])

\* api.ts: groundingChunks?.map(chunk => chunk.web).filter(Boolean) || []
HasWeb(chunk) == chunk.web # Null
WebOf(chunks) == [i \in 1..Len(chunks) |-> chunks[i].web[1]]
groundingSourcesOf(chunks) == WebOf(SelectSeq(chunks, HasWeb))

(***************************************************************************)
(* state.ts                                                                *)
(***************************************************************************)
InitialState ==
    [selectedImage |-> NoImage, currentLanguage |-> "en",
     analysisData |-> Null, cachedPrompt |-> Null]

\* Mutant: an update that replaces the state instead of merging into it.
setStateReplacing(st, newState) ==
    [f \in DOMAIN st |-> IF f \in DOMAIN newState THEN newState[f] ELSE InitialState[f]]

\* Object.assign(state, newState): the fields of newState replace those of st.
setState(st, newState) ==
    [f \in DOMAIN st |-> IF f \in DOMAIN newState THEN newState[f] ELSE st[f]]

(***************************************************************************)
(* ui.ts: the share button, displayAnalysis                                *)
(***************************************************************************)
\* The share button after loading.  main() stops at the exception of
\* setupEventListeners (elements has no shareButton) before setLanguage('en')
\* is reached, so the button's text is the markup's: none, or the English
\* label.  The button carries data-translate-key="share-btn".
MarkupTexts == {"", translations("en", "share-btn")}

InitialShareButtons ==
    {[text |-> t, key |-> Some("share-btn"), disabled |-> FALSE] : t \in MarkupTexts}

\* setLanguage's pass over the elements with data-translate-key, for the
\* share button: without the attribute the text is left alone.
translateElement(el, lang) ==
    IF el.key = Null THEN el ELSE [el EXCEPT !.text = translations(lang, el.key[1])]

LabelKeys == <<"pattern", "signal", "profit-prob", "confirm-indicators",
               "take-profit", "stop-loss", "tp-timeframe", "trading-advice", "summary">>

Translatable == <<TRUE, TRUE, FALSE, TRUE, FALSE, FALSE, FALSE, TRUE, TRUE>>

\* JavaScript truthiness of a field value and of a translation.
TruthyField(f) == f.t = "obj" \/ (f.t = "str" /\ f.s # "")
TruthyText(v) == v \notin {UNDEF, NULLV, ""}

\* parsedJson[key][lang]: indexing a plain string by 'en'/'bg' is undefined.
Index(f, lang) == IF f.t = "obj" THEN f[lang] ELSE UNDEF

\* `${value}` of a field value returned as is.
Stringify(f) == IF f.t = "obj" THEN "[object Object]" ELSE f.s

\* Mutant: the lookup without the fallback to the 'en' text.
getValueNoFallback(parsedJson, key, translatable, currentLanguage) ==
    IF ~TruthyField(parsedJson[key]) THEN NULLV
    ELSE IF translatable
         THEN IF TruthyText(Index(parsedJson[key], currentLanguage))
              THEN Index(parsedJson[key], currentLanguage)
              ELSE NULLV
         ELSE Stringify(parsedJson[key])

getValue(parsedJson, key, translatable, currentLanguage) ==
    IF ~TruthyField(parsedJson[key]) THEN NULLV
    ELSE IF translatable
         THEN IF TruthyText(Index(parsedJson[key], currentLanguage))
              THEN Index(parsedJson[key], currentLanguage)
              ELSE IF TruthyText(Index(parsedJson[key], "en"))
                   THEN Index(parsedJson[key], "en")
                   ELSE NULLV
         ELSE Stringify(parsedJson[key])

HasValue(item) == TruthyText(item.value)
HasUri(source) == TruthyText(source.uri)

sourcesList(groundingSources) ==
    LET shown == SelectSeq(groundingSources, HasUri)
    IN  [i \in 1..Len(shown) |->
            [href |-> shown[i].uri,
             text |-> IF TruthyText(shown[i].title) THEN shown[i].title ELSE shown[i].uri]]

analysisItems(parsedJson, currentLanguage) ==
    [i \in 1..Len(Keys) |->
        [label |-> translations(currentLanguage, LabelKeys[i]),
         value |-> getValue(parsedJson, Keys[i], Translatable[i], currentLanguage),
         sources |-> <<>>]]

\* The children of resultEl after displayAnalysis() under state st.
displayAnalysis(st) ==
    IF st.analysisData = Null THEN <<>>
    ELSE LET data == st.analysisData[1]
         IN  SelectSeq(analysisItems(data.json, st.currentLanguage), HasValue)
             \o (IF Len(data.groundingSources) > 0
                 THEN <<[label |-> translations(st.currentLanguage, "info-sources"),
                         value |-> "",
                         sources |-> sourcesList(data.groundingSources)]>>
                 ELSE <<>>)

(***************************************************************************)
(* api.ts: analyzeChart                                                    *)
(***************************************************************************)
\* The text part of the request.
fullPrompt(basePrompt, userDescription) ==
    IF userDescription # <<>>
    THEN <<"User-provided context: \"">> \o userDescription \o <<"\"\n\n">> \o basePrompt
    ELSE basePrompt

\* What the call of ai.models.generateContent can come back with: a rejection
\* with an Error object or with another value (a string), of the message
\* given, or a response with a text and grounding chunks.
Rejections ==
    {[rejection |-> "Error", message |-> <<"APIKEY">>],
     [rejection |-> "Error", message |-> <<"network">>],
     [rejection |-> "string", message |-> <<"APIKEY">>]}

Replies ==
    {[text |-> <<"p", "{", "pn:", "{", "en:Hammer", "bg:Chuk", "}", "sig:str", "}", "p">>,
      chunks |-> <<[web |-> Some([uri |-> "u1", title |-> "t1"])]>>],
     [text |-> <<"p">>, chunks |-> <<>>],
     [text |-> <<"{", "p", "}">>, chunks |-> <<>>]}

ModelOutcomes ==
    {[ok |-> FALSE, rejection |-> m.rejection, text |-> m.message, chunks |-> <<>>] :
        m \in Rejections}
    \cup {[ok |-> TRUE, rejection |-> "none", text |-> r.text, chunks |-> r.chunks] :
             r \in Replies}

\* The settled value of analyzeChart's promise for one outcome of the call.
analyzeChartResult(o, echo) ==
    IF ~o.ok
    THEN [ok |-> FALSE, value |-> Null, message |-> o.text,
          instanceofError |-> o.rejection = "Error"]
    ELSE LET x == extract(o.text, echo)
         IN  IF x.ok
             THEN [ok |-> TRUE,
                   value |-> Some([json |-> x.json,
                                   groundingSources |-> groundingSourcesOf(o.chunks)]),
                   message |-> <<>>, instanceofError |-> FALSE]
             ELSE [ok |-> FALSE, value |-> Null, message |-> x.message,
                   instanceofError |-> TRUE]

(***************************************************************************)
(* index.tsx: the catch block's mapping of an error to the message shown.  *)
(***************************************************************************)
\* e.message.split(sep)[1] || '' : the tokens between the first and the second
\* occurrence of sep, empty when sep does not occur.
splitSecond(msg, sep) ==
    LET first == indexOf(msg, sep)
        rest == SubSeq(msg, first + 1, Len(msg))
        next == indexOf(rest, sep)
    IN  IF first = 0 THEN <<>>
        ELSE IF next = 0 THEN rest ELSE SubSeq(rest, 1, next - 1)

errorMessageFor(instanceofError, msg, currentLanguage) ==
    IF ~instanceofError THEN <<translations(currentLanguage, "error-unexpected")>>
    ELSE IF includes(msg, "APIKEY") THEN <<translations(currentLanguage, "error-api-key")>>
    ELSE IF includes(msg, "400") THEN <<translations(currentLanguage, "error-400")>>
    ELSE IF includes(msg, "NOJSON")
         THEN <<translations(currentLanguage, "error-json")>> \o splitSecond(msg, "RESPWAS")
         ELSE msg

(***************************************************************************)
(* utils.ts: getPrompt.  Each of the two knowledge files comes back        *)
(* "missing" (response not ok), or with its text: "" (an empty file) or a   *)
(* token standing for its content.                                         *)
(***************************************************************************)
\* The answers to fetch('./application/json') and
\* fetch('./candlestick_data.csv') considered: both files there, the first
\* missing, the second empty.
Fragments == {<<"rules", "cards">>, <<"missing", "cards">>, <<"rules", "">>}

\* fullPrompt.trim(): the hardcoded instructions around the two texts.
promptText(jsonRules, csvData) ==
    <<"instructions", "JSON KNOWLEDGE BASE">> \o <<jsonRules>>
        \o <<"CSV KNOWLEDGE BASE">> \o <<csvData>> \o <<"Now, analyze">>

\* The settled promise of one call: rejected when a response is not ok.
getPrompt(jsonResponse, csvResponse) ==
    IF jsonResponse = "missing" \/ csvResponse = "missing"
    THEN [promise |-> "rejected", value |-> <<>>]
    ELSE [promise |-> "fulfilled", value |-> promptText(jsonResponse, csvResponse)]

\* String.prototype.trim on a token sequence whose blanks are the tokens " ".
trim(s) ==
    LET solid == {i \in 1..Len(s) : s[i] # " "}
    IN  IF solid = {} THEN <<>>
        ELSE SubSeq(s, CHOOSE i \in solid : \A j \in solid : i <= j,
                       CHOOSE i \in solid : \A j \in solid : j <= i)

\* What the user can have typed into the description field.
Descriptions == {<<>>, <<" ">>, <<" ", "c", " ">>}

(***************************************************************************)
(* utils.ts: fileToGenerativePart.  What readAsDataURL delivers is a       *)
(* sequence of tokens: "data:" is the scheme prefix, "," the comma         *)
(* character, every other token a run of other characters.  A read is      *)
(* [event, result]: event "error" (onerror fired), or "load" with result    *)
(* Null or Some(text).                                                     *)
(***************************************************************************)
RECURSIVE split(_, _)
split(s, sep) ==
    LET i == indexOf(s, sep)
    IN  IF i = 0 THEN <<s>>
        ELSE <<SubSeq(s, 1, i - 1)>> \o split(SubSeq(s, i + 1, Len(s)), sep)

startsWith(s, tok) == Len(s) > 0 /\ s[1] = tok

\* Mutant: any second part counts, an empty one too.
hasBase64DataLax(parts) == Len(parts) >= 2

\* The negation of  parts.length < 2 || !parts[1] .
hasBase64Data(parts) == Len(parts) >= 2 /\ parts[2] # <<>>

fileToGenerativePart(fileType, read) ==
    IF read.event = "error"
    THEN [promise |-> "rejected", error |-> "Error reading file", value |-> Null]
    ELSE IF read.result = Null \/ read.result[1] = <<>>
            \/ ~startsWith(read.result[1], "data:")
         THEN [promise |-> "rejected", error |-> "Invalid file format",
               value |-> Null]
         ELSE LET parts == split(read.result[1], ",")
              IN  IF ~hasBase64Data(parts)
                  THEN [promise |-> "rejected",
                        error |-> "Could not extract base64 data", value |-> Null]
                  ELSE [promise |-> "resolved", error |-> "",
                        value |-> Some([mimeType |-> fileType, data |-> parts[2]])]

(***************************************************************************)
(* logger.ts: Logger.log.  The POST to '/log' either settles or fails      *)
(* (postOk); the failure is caught inside log, so its promise resolves in  *)
(* both cases.                                                             *)
(***************************************************************************)
\* The events performAnalysis logs.
LogStarted == "Analysis execution started"
LogSending == "Sending prompt to Gemini model"
LogSuccess == "Analysis executed successfully"
LogFailed == "Analysis execution failed"

\* Mutant: the success record whatever analyzeChart did.
terminalRecordAlwaysSuccess(ok) == LogSuccess

\* The record logged once analyzeChart has settled: in the try block after
\* its return, in the catch block after its throw.
terminalRecord(ok) == IF ok THEN LogSuccess ELSE LogFailed

\* Mutant: log without the try/catch around the fetch.
loggerLogUncaught(postOk) == IF postOk THEN "resolved" ELSE "rejected"

loggerLog(postOk) == "resolved"

\* What a POST can come to with the endpoint in the given condition, and the
\* condition after it.
PostResults(server) == IF server = "up" THEN {TRUE} ELSE BOOLEAN
Posted(server, postOk) == IF postOk THEN server ELSE "lost"

\* The message of the error fetch rejects with.
FetchErrorMessage == <<"Failed to fetch">>

(***************************************************************************)
(* Initial state: after main() has run setupEventListeners() and           *)
(* setLanguage('en').  The panels and the loader start hidden; the markup   *)
(* decides whether the analyze button starts disabled, so both are allowed. *)
(***************************************************************************)
Init ==
    /\ state = InitialState
    /\ analyzeDisabled \in BOOLEAN
    /\ loaderHidden = TRUE
    /\ resultHidden = TRUE
    /\ errorHidden = TRUE
    /\ errorMessage = <<>>
    /\ resultEl = <<>>
    /\ preview = NoImage
    /\ attempts = <<>>
    /\ selections = <<>>
    /\ requests = 0
    /\ resultImage = NoImage
    /\ imageDescription = <<>>
    /\ lastRequest = Null
    /\ logRecords = <<>>
    /\ logServer = "up"
    /\ fetches = 0
    /\ composed = 0
    /\ shareButton \in InitialShareButtons
    /\ clipboardText = Null
    /\ probe = Null

(***************************************************************************)
(* index.tsx: handleImageFile.  The i-th file the user picks or pastes is  *)
(* file i.  pc: "log" (awaiting logger.log), "encode" (awaiting            *)
(* fileToGenerativePart), "done", "rejected".                              *)
(***************************************************************************)
\* imagePicker 'change' / document 'paste' with a file: up to the first await.
SelectImage ==
    /\ Len(attempts) + Len(selections) < MaxEvents
    /\ selections' = Append(selections, [pc |-> "log", file |-> Len(selections) + 1])
    /\ UNCHANGED <<state, analyzeDisabled, loaderHidden, resultHidden, errorHidden,
                   errorMessage, resultEl, preview, attempts, requests, imageDescription,
                   lastRequest, resultImage, logRecords, logServer, fetches, composed,
                   shareButton, clipboardText, probe>>

\* After the log: resetUIForNewAnalysis(), updateImagePreview(file), and the
\* read of the file is started.
SelectionReset(i) ==
    /\ selections[i].pc = "log"
    /\ \E postOk \in PostResults(logServer) :
          /\ logServer' = Posted(logServer, postOk)
          /\ IF loggerLog(postOk) = "resolved"
             THEN /\ resultHidden' = TRUE
                  /\ errorHidden' = TRUE
                  /\ preview' = selections[i].file
                  /\ selections' = [selections EXCEPT ![i].pc = "encode"]
             ELSE /\ selections' = [selections EXCEPT
                                       ![i] = [pc |-> "rejected", file |-> NoImage]]
                  /\ UNCHANGED <<resultHidden, errorHidden, preview>>
    /\ UNCHANGED <<state, analyzeDisabled, loaderHidden, errorMessage, resultEl,
                   attempts, requests, imageDescription, lastRequest, resultImage,
                   logRecords, fetches, composed, shareButton, clipboardText, probe>>

\* fileToGenerativePart resolved: the image is stored and the button enabled.
SelectionEncoded(i) ==
    /\ selections[i].pc = "encode"
    /\ state' = setState(state, [selectedImage |-> selections[i].file, analysisData |-> Null])
    /\ resultImage' = NoImage
    /\ analyzeDisabled' = FALSE
    /\ selections' = [selections EXCEPT ![i] = [pc |-> "done", file |-> NoImage]]
    /\ UNCHANGED <<loaderHidden, resultHidden, errorHidden, errorMessage, resultEl,
                   preview, attempts, requests, imageDescription, lastRequest,
                   logRecords, logServer, fetches, composed, shareButton, clipboardText,
                   probe>>

\* fileToGenerativePart rejected: handleImageFile has no catch, the rejection
\* leaves the handler.
SelectionEncodeFailed(i) ==
    /\ selections[i].pc = "encode"
    /\ selections' = [selections EXCEPT ![i] = [pc |-> "rejected", file |-> NoImage]]
    /\ UNCHANGED <<state, analyzeDisabled, loaderHidden, resultHidden, errorHidden,
                   errorMessage, resultEl, preview, attempts, requests, imageDescription,
                   lastRequest, resultImage, logRecords, logServer, fetches, composed,
                   shareButton, clipboardText, probe>>

(***************************************************************************)
(* index.tsx: performAnalysis.  pc: "logStart", "logPrompt", "request",    *)
(* "logSuccess", "logFail" (each an await), "done".                        *)
(***************************************************************************)
NewAttempt(image) ==
    [pc |-> "logStart", image |-> image, userDescription |-> <<>>,
     promptPromise |-> "none", promptValue |-> <<>>, analysisResult |-> Null,
     error |-> <<>>, instanceofError |-> FALSE, outcome |-> "pending"]

\* A handler that has returned keeps its outcome; its locals are gone.  The
\* promise of its getPrompt() call, if still pending, settles later all the
\* same.
Finished(attempt, outcome) ==
    [NewAttempt(NoImage) EXCEPT
        !.pc = "done", !.outcome = outcome,
        !.promptPromise = IF attempt.promptPromise = "pending" THEN "pending" ELSE "none"]

\* A click on an enabled analyze button with no image stored: early return.
ClickAnalyzeNoImage ==
    /\ ~analyzeDisabled
    /\ state.selectedImage = NoImage
    /\ UNCHANGED vars

\* A click on an enabled analyze button: selectedImage is read and the handler
\* suspends at the first logger.log.
ClickAnalyze ==
    /\ ~analyzeDisabled
    /\ state.selectedImage # NoImage
    /\ Len(attempts) + Len(selections) < MaxEvents
    /\ attempts' = Append(attempts, NewAttempt(state.selectedImage))
    /\ logRecords' = Append(logRecords, <<LogStarted>>)
    /\ UNCHANGED <<state, analyzeDisabled, loaderHidden, resultHidden, errorHidden,
                   errorMessage, resultEl, preview, selections, requests,
                   imageDescription, lastRequest, resultImage, logServer, fetches,
                   composed, shareButton, clipboardText, probe>>

\* After the first log: the UI is reset, the stored result cleared, getPrompt()
\* is called (it starts its two fetches; its promise is not awaited) and the
\* description is read.
AttemptReset(i) ==
    /\ attempts[i].pc = "logStart"
    /\ \E postOk \in PostResults(logServer) :
          /\ logServer' = Posted(logServer, postOk)
          /\ IF loggerLog(postOk) = "resolved"
             THEN /\ loaderHidden' = FALSE
                  /\ resultHidden' = TRUE
                  /\ errorHidden' = TRUE
                  /\ analyzeDisabled' = TRUE
                  /\ state' = setState(state, [analysisData |-> Null])
                  /\ resultImage' = NoImage
                  /\ fetches' = fetches + 1
                  /\ attempts' = [attempts EXCEPT
                                     ![i].pc = "logPrompt",
                                     ![i].userDescription = trim(imageDescription),
                                     ![i].promptPromise = "pending"]
                  /\ logRecords' = [logRecords EXCEPT ![i] = Append(@, LogSending)]
             ELSE \* outside the try: the rejection leaves the handler
                  /\ attempts' = [attempts EXCEPT ![i] = Finished(attempts[i], "rejected")]
                  /\ UNCHANGED <<loaderHidden, resultHidden, errorHidden,
                                 analyzeDisabled, state, resultImage, fetches,
                                 logRecords>>
    /\ UNCHANGED <<errorMessage, resultEl, preview, selections, requests,
                   imageDescription, lastRequest, composed, shareButton, clipboardText,
                   probe>>

\* The promise of getPrompt() settles: the two fetches have come back.
\* Nothing awaits the promise, so a rejection is caught by no handler.
PromptSettles(i) ==
    /\ attempts[i].promptPromise = "pending"
    /\ \E responses \in Fragments :
          LET r == getPrompt(responses[1], responses[2])
          IN  /\ attempts' =
                    IF attempts[i].pc = "done"
                    THEN \* nothing holds the promise any more
                         [attempts EXCEPT ![i].promptPromise = "none"]
                    ELSE [attempts EXCEPT ![i].promptPromise = r.promise,
                                          ![i].promptValue = r.value]
              /\ composed' = IF r.promise = "fulfilled" THEN composed + 1 ELSE composed
    /\ UNCHANGED <<state, analyzeDisabled, loaderHidden, resultHidden, errorHidden,
                   errorMessage, resultEl, preview, selections, requests,
                   imageDescription, lastRequest, resultImage, logRecords, logServer,
                   fetches, shareButton, clipboardText, probe>>

\* The user edits the description field.
TypeDescription ==
    /\ \E d \in Descriptions : imageDescription' = d
    /\ UNCHANGED <<state, analyzeDisabled, loaderHidden, resultHidden, errorHidden,
                   errorMessage, resultEl, preview, attempts, selections, requests,
                   lastRequest, resultImage, logRecords, logServer, fetches, composed,
                   shareButton, clipboardText, probe>>

\* The value performAnalysis passes as basePrompt: the promise object itself.
basePromptArgument == <<"[object Promise]">>

\* After the second log: analyzeChart builds the prompt and sends the request.
AttemptSend(i) ==
    /\ attempts[i].pc = "logPrompt"
    /\ \E postOk \in PostResults(logServer) :
          /\ logServer' = Posted(logServer, postOk)
          /\ IF loggerLog(postOk) = "resolved"
             THEN /\ requests' = requests + 1
                  /\ lastRequest' = Some([text |-> fullPrompt(basePromptArgument,
                                                              attempts[i].userDescription),
                                           image |-> attempts[i].image])
                  /\ attempts' = [attempts EXCEPT ![i].pc = "request"]
                  /\ logRecords' = logRecords
             ELSE \* inside the try: to the catch block
                  /\ attempts' = [attempts EXCEPT ![i].pc = "logFail",
                                                  ![i].error = FetchErrorMessage,
                                                  ![i].instanceofError = TRUE]
                  /\ logRecords' = [logRecords EXCEPT ![i] = Append(@, LogFailed)]
                  /\ UNCHANGED <<requests, lastRequest>>
    /\ UNCHANGED <<state, analyzeDisabled, loaderHidden, resultHidden, errorHidden,
                   errorMessage, resultEl, preview, selections, imageDescription,
                   resultImage, fetches, composed, shareButton, clipboardText, probe>>

\* generateContent settles; analyzeChart extracts and returns or throws, and
\* performAnalysis suspends at the success log or at the failure log.
AttemptSettle(i, outcomes) ==
    /\ attempts[i].pc = "request"
    /\ \E o \in outcomes : \E echo \in EchoesFor(o.text) :
          LET r == analyzeChartResult(o, echo)
          IN  /\ attempts' = [attempts EXCEPT
                                 ![i].pc = IF r.ok THEN "logSuccess" ELSE "logFail",
                                 ![i].analysisResult = r.value,
                                 ![i].error = r.message,
                                 ![i].instanceofError = r.instanceofError]
              /\ logRecords' = [logRecords EXCEPT
                                   ![i] = Append(@, terminalRecord(r.ok))]
    /\ UNCHANGED <<state, analyzeDisabled, loaderHidden, resultHidden, errorHidden,
                   errorMessage, resultEl, preview, selections, requests,
                   imageDescription, lastRequest, resultImage, logServer, fetches,
                   composed, shareButton, clipboardText, probe>>

AttemptResponse(i) == AttemptSettle(i, ModelOutcomes)

\* The same step with two outcomes only: the well-formed reply and the
\* credential failure.
BriefOutcomes ==
    {o \in ModelOutcomes : (o.ok /\ extract(o.text, NoEcho).ok) \/ o.text = <<"APIKEY">>}

AttemptResponseBrief(i) == AttemptSettle(i, BriefOutcomes)

\* After the success log: the result is stored, rendered and shown; finally.
AttemptSucceed(i) ==
    /\ attempts[i].pc = "logSuccess"
    /\ \E postOk \in PostResults(logServer) :
          /\ logServer' = Posted(logServer, postOk)
          /\ IF loggerLog(postOk) = "resolved"
             THEN /\ state' = setState(state, [analysisData |-> attempts[i].analysisResult])
                  /\ resultImage' = attempts[i].image
                  /\ resultEl' = displayAnalysis(state')
                  /\ resultHidden' = FALSE
                  /\ loaderHidden' = TRUE
                  /\ analyzeDisabled' = FALSE
                  /\ attempts' = [attempts EXCEPT ![i] = Finished(attempts[i], "success")]
                  /\ logRecords' = logRecords
             ELSE \* inside the try: to the catch block
                  /\ attempts' = [attempts EXCEPT ![i].pc = "logFail",
                                                  ![i].analysisResult = Null,
                                                  ![i].error = FetchErrorMessage,
                                                  ![i].instanceofError = TRUE]
                  /\ logRecords' = [logRecords EXCEPT ![i] = Append(@, LogFailed)]
                  /\ UNCHANGED <<state, resultImage, resultEl, resultHidden,
                                 loaderHidden, analyzeDisabled>>
    /\ UNCHANGED <<errorHidden, errorMessage, preview, selections, requests,
                   imageDescription, lastRequest, fetches, composed, shareButton,
                   clipboardText, probe>>

\* Mutant: a failed attempt that shows its message without the finally block.
AttemptFailNoFinally(i) ==
    /\ attempts[i].pc = "logFail"
    /\ errorMessage' = errorMessageFor(attempts[i].instanceofError, attempts[i].error,
                                    state.currentLanguage)
    /\ errorHidden' = FALSE
    /\ attempts' = [attempts EXCEPT ![i] = Finished(attempts[i], "failed")]
    /\ UNCHANGED <<state, analyzeDisabled, loaderHidden, resultHidden, resultEl, preview,
                   selections, requests, imageDescription, lastRequest, resultImage,
                   logRecords, logServer, fetches, composed, shareButton, clipboardText,
                   probe>>

\* Mutant: a failed attempt that shows its message and then retries by itself.
AttemptFailRetries(i) ==
    /\ attempts[i].pc = "logFail"
    /\ errorMessage' = errorMessageFor(attempts[i].instanceofError, attempts[i].error,
                                    state.currentLanguage)
    /\ errorHidden' = FALSE
    /\ attempts' = [attempts EXCEPT ![i].pc = "logPrompt"]
    /\ UNCHANGED <<state, analyzeDisabled, loaderHidden, resultHidden, resultEl, preview,
                   selections, requests, imageDescription, lastRequest, resultImage,
                   logRecords, logServer, fetches, composed, shareButton, clipboardText,
                   probe>>

\* After the failure log: the message is chosen in the current language and
\* shown; finally.
AttemptFail(i) ==
    /\ attempts[i].pc = "logFail"
    /\ \E postOk \in PostResults(logServer) :
          /\ logServer' = Posted(logServer, postOk)
          /\ IF loggerLog(postOk) = "resolved"
             THEN /\ errorMessage' = errorMessageFor(attempts[i].instanceofError,
                                                     attempts[i].error,
                                                     state.currentLanguage)
                  /\ errorHidden' = FALSE
                  /\ attempts' = [attempts EXCEPT ![i] = Finished(attempts[i], "failed")]
             ELSE \* inside the catch: only the finally block runs
                  /\ attempts' = [attempts EXCEPT ![i] = Finished(attempts[i], "rejected")]
                  /\ UNCHANGED <<errorMessage, errorHidden>>
    /\ loaderHidden' = TRUE
    /\ analyzeDisabled' = FALSE
    /\ UNCHANGED <<state, resultHidden, resultEl, preview, selections, requests,
                   imageDescription, lastRequest, resultImage, logRecords, fetches,
                   composed, shareButton, clipboardText, probe>>

(***************************************************************************)
(* index.tsx: the share button.  setupEventListeners registers its         *)
(* listeners in order and ends with                                        *)
(* elements.shareButton.addEventListener('click', handleShare); elements   *)
(* (ui.ts) has no shareButton, so that statement throws a TypeError: the   *)
(* listeners before it are registered, handleShare is not, and main()      *)
(* never reaches setLanguage('en').                                        *)
(***************************************************************************)
\* The keys handleShare would copy.
ShareKeys == <<1, 2, 3, 5, 6, 9>>

\* A click on the share button: no listener runs.  probe records the click.
ShareClick ==
    /\ ~shareButton.disabled
    /\ probe = Null
    /\ probe' = Some([event |-> "share", language |-> state.currentLanguage])
    /\ UNCHANGED <<state, analyzeDisabled, loaderHidden, resultHidden, errorHidden,
                   errorMessage, resultEl, preview, attempts, selections, requests,
                   imageDescription, lastRequest, resultImage, logRecords, logServer,
                   fetches, composed, shareButton, clipboardText>>

(***************************************************************************)
(* ui.ts: setLanguage, called by the language switcher with the other      *)
(* language.                                                               *)
(***************************************************************************)
\* Mutant: a language switch that also drops the stored result.
setLanguageDropsResult(st, lang) ==
    setState(st, [currentLanguage |-> lang, analysisData |-> Null])

setLanguage(st, lang) == setState(st, [currentLanguage |-> lang])

SwitchLanguage ==
    /\ state' = setLanguage(state, IF state.currentLanguage = "en" THEN "bg" ELSE "en")
    /\ resultEl' = displayAnalysis(state')
    /\ shareButton' = translateElement(shareButton, state'.currentLanguage)
    /\ UNCHANGED <<analyzeDisabled, loaderHidden, resultHidden, errorHidden,
                   errorMessage, preview, attempts, selections, requests,
                   imageDescription, lastRequest, resultImage, logRecords, logServer,
                   fetches, composed, clipboardText, probe>>

Next ==
    \/ SelectImage
    \/ \E i \in 1..Len(selections) : SelectionReset(i)
    \/ \E i \in 1..Len(selections) : SelectionEncoded(i)
    \/ \E i \in 1..Len(selections) : SelectionEncodeFailed(i)
    \/ ClickAnalyzeNoImage
    \/ ClickAnalyze
    \/ \E i \in 1..Len(attempts) : AttemptReset(i)
    \/ \E i \in 1..Len(attempts) : AttemptSend(i)
    \/ \E i \in 1..Len(attempts) : AttemptResponse(i)
    \/ \E i \in 1..Len(attempts) : AttemptSucceed(i)
    \/ \E i \in 1..Len(attempts) : AttemptFail(i)
    \/ SwitchLanguage

Spec == Init /\ [][Next]_vars

\* The attempts together with the prompt provider and the description field,
\* from the state in which image 1 has been loaded.
Loaded(server) ==
    /\ state = [InitialState EXCEPT !.selectedImage = 1]
    /\ analyzeDisabled = FALSE
    /\ loaderHidden = TRUE
    /\ resultHidden = TRUE
    /\ errorHidden = TRUE
    /\ errorMessage = <<>>
    /\ resultEl = <<>>
    /\ preview = 1
    /\ attempts = <<>>
    /\ selections = <<[pc |-> "done", file |-> NoImage]>>
    /\ requests = 0
    /\ imageDescription = <<>>
    /\ lastRequest = Null
    /\ resultImage = NoImage
    /\ logRecords = <<>>
    /\ logServer = server
    /\ fetches = 0
    /\ composed = 0
    /\ shareButton \in InitialShareButtons
    /\ clipboardText = Null
    /\ probe = Null

InitLoaded == Loaded("up")

NextPrompt ==
    \/ TypeDescription
    \/ ClickAnalyze
    \/ \E i \in 1..Len(attempts) : AttemptReset(i)
    \/ \E i \in 1..Len(attempts) : PromptSettles(i)
    \/ \E i \in 1..Len(attempts) : AttemptSend(i)
    \/ \E i \in 1..Len(attempts) : AttemptResponseBrief(i)
    \/ \E i \in 1..Len(attempts) : AttemptSucceed(i)
    \/ \E i \in 1..Len(attempts) : AttemptFail(i)

SpecPrompt == InitLoaded /\ [][NextPrompt]_vars

(***************************************************************************)
(* The rendering of an arbitrary stored result: the state after a          *)
(* successful attempt whose reply parsed to the object json, followed by    *)
(* language switches.                                                      *)
(***************************************************************************)
TextValues(lang) == {UNDEF, "", IF lang = "en" THEN "Hammer" ELSE "Chuk"}

FieldValues ==
    {FUndef, FNull, FStr(""), FStr("Buy")}
    \cup {FObj(e, b) : e \in TextValues("en"), b \in TextValues("bg")}

\* The parsed objects considered: at most two keys present, with any values.
RenderJsons ==
    {[k \in KeySet |-> IF k = k1 THEN v1 ELSE IF k = k2 THEN v2 ELSE FUndef] :
        k1 \in KeySet, k2 \in KeySet, v1 \in FieldValues, v2 \in FieldValues}

InitRender ==
    /\ \E json \in RenderJsons :
          state = [InitialState EXCEPT
                      !.selectedImage = 1,
                      !.analysisData = Some([json |-> json, groundingSources |-> <<>>])]
    /\ resultEl = displayAnalysis(state)
    /\ analyzeDisabled = FALSE
    /\ loaderHidden = TRUE
    /\ resultHidden = FALSE
    /\ errorHidden = TRUE
    /\ errorMessage = <<>>
    /\ preview = 1
    /\ attempts = <<Finished(NewAttempt(1), "success")>>
    /\ selections = <<[pc |-> "done", file |-> NoImage]>>
    /\ requests = 1
    /\ imageDescription = <<>>
    /\ lastRequest = Some([text |-> basePromptArgument, image |-> 1])
    /\ resultImage = 1
    /\ logRecords = <<<<LogStarted, LogSending, LogSuccess>>>>
    /\ logServer = "up"
    /\ fetches = 1
    /\ composed = 0
    /\ shareButton \in InitialShareButtons
    /\ clipboardText = Null
    /\ probe = Null

NextRender == SwitchLanguage

SpecRender == InitRender /\ [][NextRender]_vars

(***************************************************************************)
(* The extraction alone: api.ts lines 41-51 applied to every text of at    *)
(* most MaxLen tokens.  probe records the text, the argument JSON.parse    *)
(* was called with (null: not called) and what the extraction came to.     *)
(***************************************************************************)
RawAlphabet == {"{", "}", "p", "pn:", "en:Hammer", "sig:str"}

Texts(alphabet) == UNION {[1..n -> alphabet] : n \in 0..MaxLen}

ExtractText ==
    /\ probe = Null
    /\ \E raw \in Texts(RawAlphabet) : \E echo \in EchoesFor(raw) :
          probe' = Some([raw |-> raw, parserInput |-> parserInput(raw),
                         result |-> extract(raw, echo)])
    /\ UNCHANGED <<state, analyzeDisabled, loaderHidden, resultHidden, errorHidden,
                   errorMessage, resultEl, preview, attempts, selections, requests,
                   imageDescription, lastRequest, resultImage, logRecords, logServer,
                   fetches, composed, shareButton, clipboardText>>

NextExtract == ExtractText

SpecExtract == Init /\ [][NextExtract]_vars

(***************************************************************************)
(* One attempt whose request is out, answered by every reply text of at    *)
(* most MaxLen tokens: braces, prose, a member, and the phrases the catch   *)
(* block of performAnalysis looks for.                                     *)
(***************************************************************************)
ReplyAlphabet == {"{", "}", "p", "sig:str", "400", "APIKEY", "RESPWAS"}

ReplyOutcomes ==
    {[ok |-> TRUE, rejection |-> "none", text |-> t, chunks |-> <<>>] :
        t \in Texts(ReplyAlphabet)}

ReplyArrives(i) == AttemptSettle(i, ReplyOutcomes)

\* The state after image 1 was loaded and an attempt has sent its request.
InitRequested ==
    /\ state = [InitialState EXCEPT !.selectedImage = 1]
    /\ analyzeDisabled = TRUE
    /\ loaderHidden = FALSE
    /\ resultHidden = TRUE
    /\ errorHidden = TRUE
    /\ errorMessage = <<>>
    /\ resultEl = <<>>
    /\ preview = 1
    /\ attempts = <<[NewAttempt(1) EXCEPT !.pc = "request", !.promptPromise = "pending"]>>
    /\ selections = <<[pc |-> "done", file |-> NoImage]>>
    /\ requests = 1
    /\ imageDescription = <<>>
    /\ lastRequest = Some([text |-> basePromptArgument, image |-> 1])
    /\ resultImage = NoImage
    /\ logRecords = <<<<LogStarted, LogSending>>>>
    /\ logServer = "up"
    /\ fetches = 1
    /\ composed = 0
    /\ shareButton \in InitialShareButtons
    /\ clipboardText = Null
    /\ probe = Null

NextReply ==
    \/ \E i \in 1..Len(attempts) : ReplyArrives(i)
    \/ \E i \in 1..Len(attempts) : AttemptSucceed(i)
    \/ \E i \in 1..Len(attempts) : AttemptFail(i)
    \/ SwitchLanguage

SpecReply == InitRequested /\ [][NextReply]_vars

(***************************************************************************)
(* One attempt whose request is out, answered by a well-formed reply with  *)
(* every list of at most MaxChunks grounding chunks: a chunk without a web  *)
(* entry, and web entries with and without uri and title.                  *)
(***************************************************************************)
ChunkKinds ==
    {[web |-> Null],
     [web |-> Some([uri |-> "u1", title |-> "t1"])],
     [web |-> Some([uri |-> "u2", title |-> UNDEF])],
     [web |-> Some([uri |-> UNDEF, title |-> "t3"])]}

SourceOutcomes ==
    {[ok |-> TRUE, rejection |-> "none", text |-> <<"{", "sig:str", "}">>, chunks |-> c] :
        c \in UNION {[1..n -> ChunkKinds] : n \in 0..MaxChunks}}

SourcesArrive(i) == AttemptSettle(i, SourceOutcomes)

NextSources ==
    \/ \E i \in 1..Len(attempts) : SourcesArrive(i)
    \/ \E i \in 1..Len(attempts) : AttemptSucceed(i)
    \/ SwitchLanguage

SpecSources == InitRequested /\ [][NextSources]_vars

(***************************************************************************)
(* The store alone: state.ts under any sequence of at most MaxUpdates      *)
(* calls of setState.  probe is the sequence of the arguments so far.      *)
(***************************************************************************)
getState == state

Fields == DOMAIN InitialState

StateValues ==
    [selectedImage : {NoImage, 1}, currentLanguage : Languages,
     analysisData : {Null, Some([json |-> EmptyJson, groundingSources |-> <<>>])},
     cachedPrompt : {Null, Some(<<"instructions">>)}]

\* Partial<AppState>: any subset of the fields, with any values.
Partials == {[f \in F |-> full[f]] : full \in StateValues, F \in SUBSET Fields}

SetState ==
    /\ Len(probe) < MaxUpdates
    /\ \E newState \in Partials :
          /\ state' = setState(state, newState)
          /\ probe' = Append(probe, newState)
    /\ UNCHANGED <<analyzeDisabled, loaderHidden, resultHidden, errorHidden,
                   errorMessage, resultEl, preview, attempts, selections, requests,
                   imageDescription, lastRequest, resultImage, logRecords, logServer,
                   fetches, composed, shareButton, clipboardText>>

InitStore == Init /\ analyzeDisabled

NextStore == SetState

SpecStore == InitStore /\ [][NextStore]_vars

(***************************************************************************)
(* The handlers with a log endpoint that may fail any POST, from the state *)
(* in which image 1 has been loaded.                                       *)
(***************************************************************************)
InitLog == Loaded("flaky")

NextLog ==
    \/ SelectImage
    \/ \E i \in 1..Len(selections) : SelectionReset(i)
    \/ \E i \in 1..Len(selections) : SelectionEncoded(i)
    \/ ClickAnalyze
    \/ \E i \in 1..Len(attempts) : AttemptReset(i)
    \/ \E i \in 1..Len(attempts) : AttemptSend(i)
    \/ \E i \in 1..Len(attempts) : AttemptResponseBrief(i)
    \/ \E i \in 1..Len(attempts) : AttemptSucceed(i)
    \/ \E i \in 1..Len(attempts) : AttemptFail(i)

SpecLog == InitLog /\ [][NextLog]_vars

(***************************************************************************)
(* Properties                                                              *)
(***************************************************************************)
AttemptIds == 1..Len(attempts)
SelectionIds == 1..Len(selections)

\* The attempt has run its reset (it disabled the button and cleared the
\* stored result) and has not resolved yet.
Unresolved(i) == attempts[i].pc \in {"logPrompt", "request", "logSuccess", "logFail"}

\* C1: at most one generateContent call is in flight at any time.
C1_AtMostOneRequestInFlight ==
    Cardinality({i \in AttemptIds : attempts[i].pc = "request"}) <= 1

\* C2: while an attempt that has disabled the analyze control is unresolved,
\* the control stays disabled: no handler re-enables it before the attempt
\* resolves.
C2_DisabledUntilResolved ==
    \A i \in AttemptIds : Unresolved(i) => analyzeDisabled

\* C3: in every state where an attempt has cleared the stored result and has
\* not resolved yet, the stored result is null.
C3_NullWhileUnresolved ==
    \A i \in AttemptIds : Unresolved(i) => state.analysisData = Null

\* C4: a stored result was computed for the currently selected image; a
\* result for a previously selected image is never stored after the new
\* selection.
C4_ResultIsForSelectedImage ==
    state.analysisData # Null => resultImage = state.selectedImage

\* C5: analysis stays disabled while a newly selected image is being encoded
\* (stated for a selection made after an earlier image was loaded).
C5_DisabledWhileEncoding ==
    \A i \in SelectionIds :
        (selections[i].pc = "encode" /\ \E j \in SelectionIds : selections[j].pc = "done")
            => analyzeDisabled

\* C6: an error raised while loading the prompt is caught at the attempt
\* boundary: the attempt whose getPrompt() failed is on its failure path.
C6_PromptErrorIsCaught ==
    \A i \in AttemptIds : attempts[i].promptPromise = "rejected" => attempts[i].pc = "logFail"

\* C7: when an attempt resolves after a credential failure (the model call
\* threw an Error whose message contains 'API key not valid'), the
\* 'error-api-key' message of the active language is displayed, the analyze
\* control is enabled and the stored result is null.
C7_CredentialFailure ==
    [][\A i \in AttemptIds :
          (attempts[i].pc = "logFail" /\ attempts[i].instanceofError
              /\ includes(attempts[i].error, "APIKEY")
              /\ attempts'[i].pc = "done")
          => /\ errorMessage' = <<translations(state'.currentLanguage, "error-api-key")>>
             /\ ~errorHidden'
             /\ ~analyzeDisabled'
             /\ state'.analysisData = Null]_vars

\* C8: each attempt sends exactly one request and nothing else sends one: the
\* number of requests made equals the number of attempts that have passed
\* their send step, also after failed attempts.
C8_OneRequestPerAttempt ==
    requests = Cardinality({i \in AttemptIds :
                               attempts[i].pc \in {"request", "logSuccess", "logFail", "done"}})

C8_Witness ==
    /\ \E i \in AttemptIds : attempts[i].outcome = "failed"
    /\ \E i \in AttemptIds : attempts[i].outcome = "success"
    /\ requests = 2

\* C9: a language switch changes the active language only: the stored result,
\* the selected image, the cached prompt, the number of requests and the
\* handlers in flight are unchanged, and the rendered items are the stored
\* result's, labelled in the new language.
AllLabelKeys == {LabelKeys[i] : i \in 1..Len(LabelKeys)} \cup {"info-sources"}

C9_LanguageSwitchFrame ==
    [][state'.currentLanguage # state.currentLanguage
          => /\ state'.analysisData = state.analysisData
             /\ state'.selectedImage = state.selectedImage
             /\ state'.cachedPrompt = state.cachedPrompt
             /\ requests' = requests
             /\ lastRequest' = lastRequest
             /\ attempts' = attempts
             /\ (state.analysisData = Null <=> resultEl' = <<>>)
             /\ \A k \in 1..Len(resultEl') :
                   \E key \in AllLabelKeys :
                       resultEl'[k].label = translations(state'.currentLanguage, key)]_vars

C9_Witness ==
    /\ state.currentLanguage = "bg"
    /\ state.analysisData # Null
    /\ Len(resultEl) > 0
    /\ resultEl[1] = [label |-> translations("bg", "pattern"), value |-> "Chuk",
                      sources |-> <<>>]

\* C10: for every translatable field and active language, the rendered value
\* is the active language's translation when present (a non-empty text),
\* otherwise the 'en' text; the field is omitted only when both are absent.
TranslatableIds == {i \in 1..Len(Keys) : Translatable[i]}

Present(f, lang) == f.t = "obj" /\ f[lang] \notin {UNDEF, ""}

ItemsLabelled(label) == {k \in 1..Len(resultEl) : resultEl[k].label = label}

C10_TranslationFallback ==
    state.analysisData # Null =>
        \A i \in TranslatableIds :
            LET f == state.analysisData[1].json[Keys[i]]
                lang == state.currentLanguage
                shown == ItemsLabelled(translations(lang, LabelKeys[i]))
            IN  /\ Present(f, lang) =>
                    \E k \in shown : shown = {k} /\ resultEl[k].value = f[lang]
                /\ (~Present(f, lang) /\ Present(f, "en")) =>
                    \E k \in shown : shown = {k} /\ resultEl[k].value = f.en
                /\ (~Present(f, lang) /\ ~Present(f, "en")) => shown = {}

C10_Witness ==
    /\ state.currentLanguage = "bg"
    /\ state.analysisData # Null
    /\ state.analysisData[1].json["summary"] = FObj("Hammer", "")
    /\ \E k \in 1..Len(resultEl) :
          resultEl[k] = [label |-> translations("bg", "summary"), value |-> "Hammer",
                         sources |-> <<>>]

(***************************************************************************)
(* Extraction                                                              *)
(***************************************************************************)
Opens(raw) == {i \in 1..Len(raw) : raw[i] = "{"}
Closes(raw) == {i \in 1..Len(raw) : raw[i] = "}"}
Least(S) == CHOOSE i \in S : \A j \in S : i <= j
Greatest(S) == CHOOSE i \in S : \A j \in S : j <= i

\* The raw text has a '{' and a '}' and its last '}' is after its first '{'.
BracesFound(raw) ==
    Opens(raw) # {} /\ Closes(raw) # {} /\ Greatest(Closes(raw)) > Least(Opens(raw))

\* Prose: text that holds no member of an object and no complete object.
IsProse(t) ==
    /\ \A k \in 1..Len(t) : t[k] \notin Members \cup KeyTokens
    /\ \A k \in 1..Len(t) : \A l \in k..Len(t) : ~WellFormed(SubSeq(t, k, l))

\* raw is prose, the well-formed object raw[i..j], prose.
Embedded(raw, i, j) ==
    /\ WellFormed(SubSeq(raw, i, j))
    /\ IsProse(SubSeq(raw, 1, i - 1))
    /\ IsProse(SubSeq(raw, j + 1, Len(raw)))

ParsedValue(object) == [k \in KeySet |-> FieldOf(object, k)]

\* C11 (as stated): for every raw text made of a well-formed JSON object
\* preceded and/or followed by any prose, the extraction returns the parsed
\* value of that object.
C11_ExtractsEmbeddedObject ==
    probe # Null =>
        LET raw == probe[1].raw
        IN  \A i \in 1..Len(raw) : \A j \in i..Len(raw) :
                Embedded(raw, i, j)
                    => /\ probe[1].result.ok
                       /\ probe[1].result.json = ParsedValue(SubSeq(raw, i, j))

\* C11 (amended): for every raw text made of a well-formed JSON object
\* preceded by prose without '{' and followed by prose without '}', the
\* extraction returns the parsed value of that object.
C11_ExtractsObjectBetweenBraceFreeProse ==
    probe # Null =>
        LET raw == probe[1].raw
        IN  \A i \in 1..Len(raw) : \A j \in i..Len(raw) :
                (/\ Embedded(raw, i, j)
                 /\ \A k \in 1..(i - 1) : raw[k] # "{"
                 /\ \A k \in (j + 1)..Len(raw) : raw[k] # "}")
                    => /\ probe[1].result.ok
                       /\ probe[1].result.json = ParsedValue(SubSeq(raw, i, j))

C11_Witness ==
    /\ probe # Null
    /\ probe[1].raw = <<"p", "{", "sig:str", "}", "p">>
    /\ probe[1].result.ok
    /\ probe[1].result.json["signal"] = FStr("Buy")

\* C12: the extraction fails with the no-JSON-found error exactly when the
\* raw text has no '{', or no '}', or its last '}' before its first '{';
\* the error then carries the complete raw text and JSON.parse is not called.
C12_NoJsonFoundExactly ==
    probe # Null =>
        LET raw == probe[1].raw
            message == probe[1].result.message
            noJsonError == Len(message) >= 1 /\ message[1] = "NOJSON"
        IN  /\ noJsonError <=> ~BracesFound(raw)
            /\ ~BracesFound(raw)
                  => /\ ~probe[1].result.ok
                     /\ SubSeq(message, 3, Len(message)) = raw
                     /\ probe[1].parserInput = Null

C12_Witness ==
    /\ probe # Null
    /\ probe[1].raw = <<"}", "p", "{">>
    /\ probe[1].result.message = <<"NOJSON", "RESPWAS", "}", "p", "{">>
    /\ probe[1].parserInput = Null

\* C13: when the raw text has its first '{' at i and its last '}' at j > i,
\* the text given to JSON.parse is exactly raw[i..j]: it starts at the first
\* '{', ends at the last '}', and nothing in between is removed.
C13_ParserInputIsInclusiveSlice ==
    (probe # Null /\ BracesFound(probe[1].raw)) =>
        LET raw == probe[1].raw
            i == Least(Opens(raw))
            j == Greatest(Closes(raw))
        IN  /\ probe[1].parserInput # Null
            /\ Len(probe[1].parserInput[1]) = j - i + 1
            /\ \A k \in 1..(j - i + 1) : probe[1].parserInput[1][k] = raw[i + k - 1]

C13_Witness ==
    /\ probe # Null
    /\ probe[1].raw = <<"p", "{", "sig:str", "}", "p">>
    /\ probe[1].parserInput = Some(<<"{", "sig:str", "}">>)

\* C14: whenever an attempt fails because no JSON object was found in the
\* reply, the message displayed is the active language's 'error-json' text
\* followed by the complete raw reply, whatever the reply contains.
C14_NoJsonMessageEchoesReply ==
    [][\A i \in AttemptIds :
          (/\ attempts[i].pc = "logFail"
           /\ attempts'[i].pc = "done"
           /\ attempts[i].error[1] = "NOJSON")
          => errorMessage' = <<translations(state'.currentLanguage, "error-json")>>
                              \o SubSeq(attempts[i].error, 3, Len(attempts[i].error))]_vars

\* C15: whenever an attempt fails because the sliced text is not valid JSON,
\* no result is stored and the message displayed is a localized text
\* followed by an echo of the offending text.
ErrorKeys == {"error-unexpected", "error-api-key", "error-400", "error-json"}

C15_ParseFailureMessage ==
    [][\A i \in AttemptIds :
          (/\ attempts[i].pc = "logFail"
           /\ attempts'[i].pc = "done"
           /\ attempts[i].error[1] = "SYNTAX")
          => /\ state'.analysisData = Null
             /\ Len(errorMessage') > 1
             /\ \E key \in ErrorKeys :
                   errorMessage'[1] = translations(state'.currentLanguage, key)]_vars

(***************************************************************************)
(* Prompt                                                                  *)
(***************************************************************************)
\* C16: when an attempt whose prompt was composed as the text p sends its
\* request with the (trimmed) user context c, the text sent is
\* 'User-provided context: "c"', a blank line, then p; for an empty context
\* it is exactly p.
C16_PromptSentIsContextThenBase ==
    [][\A i \in AttemptIds :
          (/\ attempts[i].pc = "logPrompt"
           /\ attempts'[i].pc = "request"
           /\ attempts[i].promptPromise = "fulfilled")
          => LET c == attempts[i].userDescription
                 p == attempts[i].promptValue
             IN  lastRequest'[1].text =
                     IF c # <<>>
                     THEN <<"User-provided context: \"">> \o c \o <<"\"\n\n">> \o p
                     ELSE p]_vars

\* C17: once a call of getPrompt has composed the prompt, no later call
\* fetches the knowledge files again (it returns the cached text).
C17_NoFetchAfterComposition ==
    [][composed >= 1 => fetches' = fetches]_vars

\* C18: an attempt whose prompt could not be composed, because a knowledge
\* file was not retrieved or came back empty, sends no request to the model.
PromptNotLoaded(i) ==
    \/ attempts[i].promptPromise = "rejected"
    \/ attempts[i].promptPromise = "fulfilled" /\ includes(attempts[i].promptValue, "")

C18_NoRequestWithoutPrompt ==
    [][\A i \in AttemptIds :
          (attempts[i].pc = "logPrompt" /\ PromptNotLoaded(i))
              => attempts'[i].pc # "request"]_vars

(***************************************************************************)
(* Citation sources and the store                                          *)
(***************************************************************************)
\* C19: every citation source stored with a result has a uri: entries of the
\* response's grounding chunks that are not web entries or lack a uri are
\* not stored.
C19_StoredSourcesHaveUri ==
    state.analysisData # Null =>
        \A k \in 1..Len(state.analysisData[1].groundingSources) :
            state.analysisData[1].groundingSources[k].uri # UNDEF

\* C20: a call setState(partial) sets exactly the fields of partial to the
\* given values and leaves every other field as it was; after any updates,
\* getState returns for each field the value of the latest update that set
\* it (the initial value when none did).
Writers(f, updates) == {k \in 1..Len(updates) : f \in DOMAIN updates[k]}

C20_MergeLastWriteWins ==
    [][probe' # probe =>
          LET partial == probe'[Len(probe')]
          IN  /\ DOMAIN getState' = DOMAIN getState
              /\ \A f \in DOMAIN partial : getState'[f] = partial[f]
              /\ \A f \in Fields \ DOMAIN partial : getState'[f] = getState[f]
              /\ \A f \in Fields :
                    getState'[f] =
                        IF Writers(f, probe') = {} THEN InitialState[f]
                        ELSE probe'[Greatest(Writers(f, probe'))][f]]_vars

C20_Witness ==
    /\ Len(probe) = 2
    /\ probe[1] = [selectedImage |-> 1, currentLanguage |-> "bg"]
    /\ probe[2] = [currentLanguage |-> "en", cachedPrompt |-> Some(<<"instructions">>)]
    /\ getState = [selectedImage |-> 1, currentLanguage |-> "en", analysisData |-> Null,
                   cachedPrompt |-> Some(<<"instructions">>)]

\* The same handlers with the scheduling of the event loop: an awaited
\* operation of an attempt settles and its continuation runs.
AttemptStep(i) ==
    /\ i <= Len(attempts)
    /\ \/ AttemptReset(i)
       \/ AttemptSend(i)
       \/ AttemptResponseBrief(i)
       \/ AttemptSucceed(i)
       \/ AttemptFail(i)

SpecLive ==
    /\ InitLog
    /\ [][NextLog]_vars
    /\ \A i \in 1..MaxEvents : WF_vars(AttemptStep(i))

\* fileToGenerativePart on every file type and read considered.
DataUrlAlphabet == {"data:", "image/png;base64", ",", "iVBOR"}

FileTypes == {"image/png", ""}

Reads ==
    {[event |-> "error", result |-> Null], [event |-> "load", result |-> Null]}
        \cup {[event |-> "load", result |-> Some(t)] : t \in Texts(DataUrlAlphabet)}

EncodeFile ==
    /\ probe = Null
    /\ \E fileType \in FileTypes, read \in Reads :
          probe' = Some([fileType |-> fileType, read |-> read,
                         part |-> fileToGenerativePart(fileType, read)])
    /\ UNCHANGED <<state, analyzeDisabled, loaderHidden, resultHidden, errorHidden,
                   errorMessage, resultEl, preview, attempts, selections, requests,
                   imageDescription, lastRequest, resultImage, logRecords, logServer,
                   fetches, composed, shareButton, clipboardText>>

NextEncode == EncodeFile

SpecEncode == Init /\ [][NextEncode]_vars

\* The paste listener.  A clipboard item is [type, hasFile]: its MIME type
\* as tokens ("image" is that word, wherever it stands in the type) and
\* whether getAsFile() returns a file.  The clipboard is Null when the event
\* carries no clipboardData.
ItemTypes ==
    {<<"text", "/", "plain">>, <<"image", "/", "png">>,
     <<"application", "/", "x-apple-disk", "image">>}

ClipboardItems == [type : ItemTypes, hasFile : BOOLEAN]

Clipboards ==
    {Null} \cup {Some(l) : l \in UNION {[1..n -> ClipboardItems] : n \in 0..MaxItems}}

\* The loop of the listener from index i: the index of the item whose file
\* is handed to handleImageFile, 0 when the loop ends without one.
RECURSIVE pasteLoop(_, _)
pasteLoop(items, i) ==
    IF i > Len(items) THEN 0
    ELSE IF includes(items[i].type, "image") /\ items[i].hasFile THEN i
         ELSE pasteLoop(items, i + 1)

pastedItem(clipboard) == IF clipboard = Null THEN 0 ELSE pasteLoop(clipboard[1], 1)

\* A paste event: up to the first await of handleImageFile.  (probe holds
\* the one event of a behaviour whose input and effect are recorded.)
Paste ==
    /\ probe = Null
    /\ Len(attempts) + Len(selections) < MaxEvents
    /\ \E clipboard \in Clipboards :
          /\ probe' = Some([event |-> "paste", input |-> NoImage,
                            accepted |-> pastedItem(clipboard) # 0,
                            clipboard |-> clipboard,
                            handled |-> pastedItem(clipboard)])
          /\ IF pastedItem(clipboard) = 0
             THEN selections' = selections
             ELSE selections' = Append(selections,
                                       [pc |-> "log", file |-> Len(selections) + 1])
    /\ UNCHANGED <<state, analyzeDisabled, loaderHidden, resultHidden, errorHidden,
                   errorMessage, resultEl, preview, attempts, requests, imageDescription,
                   lastRequest, resultImage, logRecords, logServer, fetches, composed,
                   shareButton, clipboardText>>

NextPaste ==
    \/ SelectImage
    \/ Paste
    \/ \E i \in 1..Len(selections) : SelectionReset(i)
    \/ \E i \in 1..Len(selections) : SelectionEncoded(i)
    \/ \E i \in 1..Len(selections) : SelectionEncodeFailed(i)

SpecPaste == Init /\ [][NextPaste]_vars

\* The guards at the head of the two handlers.
\* Mutant: handleImageFile without its guard.
handleImageFileProceedsAlways(file) == TRUE

\* if (!file) return;
handleImageFileProceeds(file) == file # NoImage

\* if (!selectedImage) return;
performAnalysisProceeds(selectedImage) == selectedImage # NoImage

\* A click on the enabled analyze button, with or without a stored image:
\* performAnalysis up to its first await.
Click ==
    /\ probe = Null
    /\ ~analyzeDisabled
    /\ probe' = Some([event |-> "click", input |-> state.selectedImage,
                      accepted |-> performAnalysisProceeds(state.selectedImage),
                      clipboard |-> Null, handled |-> 0])
    /\ IF performAnalysisProceeds(state.selectedImage)
       THEN /\ Len(attempts) + Len(selections) < MaxEvents
            /\ attempts' = Append(attempts, NewAttempt(state.selectedImage))
            /\ logRecords' = Append(logRecords, <<LogStarted>>)
       ELSE /\ attempts' = attempts
            /\ logRecords' = logRecords
    /\ UNCHANGED <<state, analyzeDisabled, loaderHidden, resultHidden, errorHidden,
                   errorMessage, resultEl, preview, selections, requests,
                   imageDescription, lastRequest, resultImage, logServer, fetches,
                   composed, shareButton, clipboardText>>

\* A 'change' event of the file picker: files?.[0] ?? null is a file (the
\* next one) or null, and handleImageFile runs up to its first await.
Pick ==
    /\ probe = Null
    /\ \E file \in {NoImage, Len(selections) + 1} :
          /\ probe' = Some([event |-> "pick", input |-> file,
                            accepted |-> handleImageFileProceeds(file),
                            clipboard |-> Null, handled |-> 0])
          /\ IF handleImageFileProceeds(file)
             THEN /\ Len(attempts) + Len(selections) < MaxEvents
                  /\ selections' = Append(selections,
                                          [pc |-> "log", file |-> Len(selections) + 1])
             ELSE selections' = selections
    /\ UNCHANGED <<state, analyzeDisabled, loaderHidden, resultHidden, errorHidden,
                   errorMessage, resultEl, preview, attempts, requests, imageDescription,
                   lastRequest, resultImage, logRecords, logServer, fetches, composed,
                   shareButton, clipboardText>>

NextNoop ==
    \/ SelectImage
    \/ ClickAnalyze
    \/ Click
    \/ Pick
    \/ Paste
    \/ \E i \in 1..Len(selections) : SelectionReset(i)
    \/ \E i \in 1..Len(selections) : SelectionEncoded(i)
    \/ \E i \in 1..Len(selections) : SelectionEncodeFailed(i)

SpecNoop == Init /\ [][NextNoop]_vars

\* Clicks on the share button under a displayed result, with language
\* switches in between.
ShareJsons ==
    {j \in RenderJsons :
        \A k \in KeySet \ {"summary", "profitProbability"} : j[k] = FUndef}

InitShare == InitRender /\ state.analysisData[1].json \in ShareJsons

NextShare ==
    \/ ShareClick
    \/ SwitchLanguage

SpecShare == InitShare /\ [][NextShare]_vars

(***************************************************************************)
(* Logging, termination, language                                          *)
(***************************************************************************)
\* C21: whether the POST of a log record succeeds or fails, the handler that
\* awaits the log call continues with its next stage and the same effects:
\* every step that resumes a handler after a log call is the continuation
\* the code has for a delivered record.
C21_LogFailureIsSwallowed ==
    [][/\ \A i \in AttemptIds :
            attempts'[i].pc # attempts[i].pc =>
                CASE attempts[i].pc = "logStart" ->
                         /\ attempts'[i].pc = "logPrompt"
                         /\ ~loaderHidden' /\ analyzeDisabled'
                         /\ state'.analysisData = Null
                  [] attempts[i].pc = "logPrompt" ->
                         /\ attempts'[i].pc = "request"
                         /\ requests' = requests + 1
                  [] attempts[i].pc = "logSuccess" ->
                         /\ attempts'[i].outcome = "success"
                         /\ state'.analysisData = attempts[i].analysisResult
                         /\ ~resultHidden' /\ loaderHidden' /\ ~analyzeDisabled'
                  [] attempts[i].pc = "logFail" ->
                         /\ attempts'[i].outcome = "failed"
                         /\ errorMessage' = errorMessageFor(attempts[i].instanceofError,
                                                            attempts[i].error,
                                                            state.currentLanguage)
                         /\ ~errorHidden' /\ loaderHidden' /\ ~analyzeDisabled'
                  [] OTHER -> TRUE
       /\ \A i \in SelectionIds :
            (selections[i].pc = "log" /\ selections'[i].pc # "log")
                => /\ selections'[i].pc = "encode"
                   /\ preview' = selections[i].file
                   /\ resultHidden' /\ errorHidden']_vars

\* A log record of the only attempt was lost and the attempt succeeded.
C21_Witness ==
    /\ logServer = "lost"
    /\ Len(selections) = 1
    /\ Len(attempts) = 1
    /\ attempts[1].outcome = "success"
    /\ ~resultHidden
    /\ state.analysisData # Null

\* C22: every submitted attempt eventually resolves to success or failure,
\* and when it does the loader is hidden and the analyze button is enabled
\* (awaited operations are assumed to settle).
C22_EveryAttemptResolves ==
    \A i \in 1..MaxEvents :
        (Len(attempts) >= i)
            ~> (/\ Len(attempts) >= i
                /\ attempts[i].pc = "done"
                /\ attempts[i].outcome \in {"success", "failed"}
                /\ loaderHidden
                /\ ~analyzeDisabled)

\* Two attempts were submitted; one resolved to success, the other to failure.
C22_Witness ==
    /\ Len(attempts) = 2
    /\ \A i \in 1..2 : attempts[i].pc = "done"
    /\ {attempts[1].outcome, attempts[2].outcome} = {"success", "failed"}
    /\ loaderHidden
    /\ ~analyzeDisabled

\* C23: every visible localized string is in the active language: the
\* labels of a visible result panel and the message of a visible error panel
\* are the translations under state.currentLanguage.
C23_VisibleStringsInActiveLanguage ==
    /\ ~resultHidden =>
           \A k \in 1..Len(resultEl) :
               \E key \in AllLabelKeys :
                   resultEl[k].label = translations(state.currentLanguage, key)
    /\ ~errorHidden =>
           \A lang \in Languages, key \in ErrorKeys :
               (errorMessage # <<>> /\ errorMessage[1] = translations(lang, key))
                   => lang = state.currentLanguage

(***************************************************************************)
(* Image input                                                             *)
(***************************************************************************)
\* The text after the first comma of a data URL, up to the next comma.
Base64Part(url) ==
    LET i == indexOf(url, ",")
        rest == SubSeq(url, i + 1, Len(url))
        j == indexOf(rest, ",")
    IN  IF i = 0 THEN <<>>
        ELSE IF j = 0 THEN rest ELSE SubSeq(rest, 1, j - 1)

IsDataUrl(read) ==
    /\ read.event = "load"
    /\ read.result # Null
    /\ Len(read.result[1]) > 0
    /\ read.result[1][1] = "data:"

\* C24: the encoder resolves with {mimeType, data}, data the non-empty
\* base64 part of the data URL, exactly when the read succeeds, its result
\* is a data URL and the base64 part is non-empty; otherwise it rejects with
\* an error.  It never resolves with empty data.
C24_EncoderResolvesWithData ==
    probe # Null =>
        LET read == probe[1].read
            part == probe[1].part
            good == IsDataUrl(read) /\ Base64Part(read.result[1]) # <<>>
        IN  /\ part.promise \in {"resolved", "rejected"}
            /\ part.promise = "resolved" <=> good
            /\ part.promise = "resolved" =>
                   /\ part.value # Null
                   /\ part.value[1].data # <<>>
                   /\ part.value[1].data = Base64Part(read.result[1])
                   /\ part.value[1].mimeType = probe[1].fileType
            /\ part.promise = "rejected" =>
                   part.error # "" /\ part.value = Null

\* The data URL of a PNG file was read and the encoder resolved with its
\* base64 part.
C24_Witness ==
    /\ probe # Null
    /\ probe[1].read.event = "load"
    /\ probe[1].read.result = Some(<<"data:", "image/png;base64", ",", "iVBOR">>)
    /\ probe[1].part.promise = "resolved"
    /\ probe[1].part.value = Some([mimeType |-> "image/png", data |-> <<"iVBOR">>])

IsImageType(type) == Len(type) >= 2 /\ type[1] = "image" /\ type[2] = "/"

\* The lowest index of an image item that yields a file, 0 when there is none.
FirstImageFile(clipboard) ==
    IF clipboard = Null THEN 0
    ELSE LET items == clipboard[1]
             S == {i \in 1..Len(items) : IsImageType(items[i].type) /\ items[i].hasFile}
         IN  IF S = {} THEN 0 ELSE CHOOSE i \in S : \A j \in S : i <= j

\* C25: a paste processes the first clipboard item whose type is an image
\* and that yields a file, and no other; a paste without such an item
\* changes nothing.
C25_PasteTakesFirstImageItem ==
    [][probe' # probe =>
          LET first == FirstImageFile(probe'[1].clipboard)
          IN  /\ probe'[1].handled = first
              /\ first = 0 => selections' = selections
              /\ first # 0 => Len(selections') = Len(selections) + 1]_vars

\* C26: the image sent to the model by an attempt is the image most
\* recently selected, the one shown in the preview, at the moment the request
\* is sent.
C26_SentImageIsPreviewedImage ==
    [][\A i \in AttemptIds :
          (attempts[i].pc = "logPrompt" /\ attempts'[i].pc = "request")
              => lastRequest'[1].image = preview]_vars

(***************************************************************************)
(* Ordering of the prompt and the request                                  *)
(***************************************************************************)
\* C27: when the request of an attempt is sent, the prompt provider has
\* delivered its text for that attempt, and the request ends with exactly
\* that text as its base prompt.
C27_RequestAfterPromptDelivered ==
    [][\A i \in AttemptIds :
          (attempts[i].pc = "logPrompt" /\ attempts'[i].pc = "request")
              => /\ attempts[i].promptPromise = "fulfilled"
                 /\ LET t == lastRequest'[1].text
                        p == attempts[i].promptValue
                    IN  /\ Len(t) >= Len(p)
                        /\ SubSeq(t, Len(t) - Len(p) + 1, Len(t)) = p]_vars

(***************************************************************************)
(* Panels                                                                  *)
(***************************************************************************)
\* C28: the result panel and the error panel are never visible together.
C28_PanelsExclusive == ~(~resultHidden /\ ~errorHidden)

\* C29: the loader is visible exactly while a model request is pending: it
\* is visible while some attempt is past its start and unresolved, and
\* hidden when no attempt is.
C29_LoaderWhilePending ==
    ~loaderHidden <=> \E i \in AttemptIds : Unresolved(i)

\* C30: whenever the result panel is visible the stored result is non-null
\* and the rendered fields are those of the stored result in the active
\* language; and a language switch while the panel is hidden leaves it
\* hidden.
C30_VisibleResultIsStoredResult ==
    /\ [](~resultHidden =>
             /\ state.analysisData # Null
             /\ resultEl = displayAnalysis(state))
    /\ [][(state'.currentLanguage # state.currentLanguage /\ resultHidden)
              => resultHidden']_vars

(***************************************************************************)
(* Log records, rendering order, no-ops, share                             *)
(***************************************************************************)
\* C31: an attempt logs 'Analysis execution started', then 'Sending prompt
\* to Gemini model', then exactly one terminal record, never both: the
\* success record if and only if the attempt stores a result, otherwise the
\* failure record.
C31_LogRecordsInOrder ==
    /\ [](\A i \in AttemptIds :
             LET r == logRecords[i]
                 a == attempts[i]
             IN  /\ a.pc = "logStart" => r = <<LogStarted>>
                 /\ a.pc \in {"logPrompt", "request"} => r = <<LogStarted, LogSending>>
                 /\ a.pc = "logSuccess" => r = <<LogStarted, LogSending, LogSuccess>>
                 /\ a.pc = "logFail" => r = <<LogStarted, LogSending, LogFailed>>
                 /\ a.pc = "done" =>
                        /\ r \in {<<LogStarted, LogSending, LogSuccess>>,
                                  <<LogStarted, LogSending, LogFailed>>}
                        /\ r[3] = LogSuccess <=> a.outcome = "success")
    /\ [][\A i \in AttemptIds :
             (attempts[i].pc # "done" /\ attempts'[i].pc = "done")
                 => /\ logRecords'[i][3] = LogSuccess
                        <=> /\ attempts[i].analysisResult # Null
                            /\ state'.analysisData = attempts[i].analysisResult
                    /\ logRecords'[i][3] = LogFailed
                        => state'.analysisData = state.analysisData]_vars

\* Two attempts have ended, one with the success record and a stored result,
\* one with the failure record.
C31_Witness ==
    /\ Len(attempts) = 2
    /\ attempts[1].pc = "done" /\ attempts[2].pc = "done"
    /\ logRecords[1] = <<LogStarted, LogSending, LogFailed>>
    /\ logRecords[2] = <<LogStarted, LogSending, LogSuccess>>
    /\ state.analysisData # Null

\* A value that holds text: a non-empty plain string, or a per-language
\* mapping with a text for the language or for 'en'.
NonEmptyValue(f, lang) ==
    \/ f.t = "str" /\ f.s # ""
    \/ Present(f, lang)
    \/ Present(f, "en")

\* C32: every displayed key with a non-empty value in the stored JSON is
\* rendered as one item, the items in the fixed order of the nine keys, in
\* every language; a translatable key holding a plain string included.
C32_EveryValuedKeyRendered ==
    state.analysisData # Null =>
        LET json == state.analysisData[1].json
            lang == state.currentLanguage
            valued == {i \in 1..Len(Keys) : NonEmptyValue(json[Keys[i]], lang)}
        IN  /\ \A i \in valued :
                   \E k \in 1..Len(resultEl) :
                       ItemsLabelled(translations(lang, LabelKeys[i])) = {k}
            /\ \A i, j \in valued :
                   i < j =>
                       \A k \in ItemsLabelled(translations(lang, LabelKeys[i])),
                          m \in ItemsLabelled(translations(lang, LabelKeys[j])) : k < m

\* The events the claim calls no-ops: a click with no stored image, a pick
\* without a file, a paste none of whose items yields a file.
YieldsNothing(ev) ==
    \/ ev.event = "click" /\ ev.input = NoImage
    \/ ev.event = "pick" /\ ev.input = NoImage
    \/ /\ ev.event = "paste"
       /\ \/ ev.clipboard = Null
          \/ \A k \in 1..Len(ev.clipboard[1]) : ~ev.clipboard[1][k].hasFile

\* C33: an analyze click with no image selected and a pick or paste that
\* yields no file are no-ops: no handler is started, no log record and no
\* request made, and the stored state, the panels, the loader and the
\* analyze button are unchanged.
C33_NoImageEventsAreNoOps ==
    [][(probe' # probe /\ YieldsNothing(probe'[1]))
          => /\ ~probe'[1].accepted
             /\ UNCHANGED <<state, analyzeDisabled, loaderHidden, resultHidden,
                            errorHidden, errorMessage, resultEl, preview, attempts,
                            selections, requests, lastRequest, logRecords,
                            logServer>>]_vars

\* A click on the enabled button was made with no image stored, while a
\* picked file was being read; no attempt exists.
C33_Witness ==
    /\ probe # Null
    /\ probe[1].event = "click"
    /\ probe[1].input = NoImage
    /\ ~probe[1].accepted
    /\ Len(selections) = 1
    /\ selections[1].pc = "encode"
    /\ attempts = <<>>
    /\ logRecords = <<>>
    /\ requests = 0

\* The display's value of a key as text: nothing shown is the empty text.
DisplayedText(json, i, lang) ==
    LET v == getValue(json, Keys[i], Translatable[i], lang)
    IN  IF TruthyText(v) THEN v ELSE ""

\* C34: a click on share with a stored result copies the fields of the
\* stored result in the active language with the display's 'en' fallback,
\* changes no stored state and starts the 'copied' feedback, the share button
\* disabled (after the feedback the button is enabled again, its label in
\* the language active at that time).
C34_ShareCopiesAndRestoresLabel ==
    [][(/\ probe = Null
        /\ probe' # Null
        /\ probe'[1].event = "share"
        /\ state.analysisData # Null)
          => /\ state' = state
             /\ clipboardText' # Null
             /\ LET lines == clipboardText'[1]
                    json == state.analysisData[1].json
                    lang == state.currentLanguage
                IN  /\ Len(lines) = Len(ShareKeys) + 1
                    /\ \A n \in 1..Len(ShareKeys) :
                           /\ lines[n + 1].label =
                                  translations(lang, LabelKeys[ShareKeys[n]])
                           /\ lines[n + 1].value =
                                  DisplayedText(json, ShareKeys[n], lang)
             /\ shareButton' = [text |-> translations(state.currentLanguage, "copied-msg"),
                                key |-> Null, disabled |-> TRUE]]_vars

====
